---- MODULE Spec2Model ----
(***************************************************************************)
(* Model of process_telegram_image (telegram_bridge.py): one Run of the    *)
(* OCR -> knowledge graph -> pattern discovery -> hypothesis verification  *)
(* pipeline, stepped at every collaborator call.  Each collaborator call   *)
(* either returns or raises an Exception; the try/except of the entry      *)
(* point decides what the caller gets.                                     *)
(***************************************************************************)
EXTENDS Integers, Sequences, FiniteSets, TLC

VARIABLES
    pc,              \* position of the Run inside process_telegram_image
    user_id,         \* argument user_id
    image_path,      \* argument image_path
    element_id,      \* local element_id (the run identifier)
    extracted_text,  \* local extracted_text
    patterns,        \* local patterns
    questions,       \* local questions
    results,         \* local results
    item_results,    \* inside verify: question index -> its result so far
    completion,      \* inside verify: indices in the order they finished
    sessionOpen,     \* the graph-store session of KGPatternDiscovery is open
    stage_outcome,   \* per stage: "none", "running", "ok" or "raised"
    invoked,         \* stages in the order they were invoked
    calls,           \* number of invocations of each collaborator operation
    exc,             \* the exception caught by `except Exception as e`
    raisedBy,        \* which collaborator call raised (history)
    reports,         \* the report returned to the caller ({} until then)
    escaped,         \* the exception that left the call ({} if none)
    verify_input,    \* the argument verify_questions_sync was called with
    now_read,        \* the clock reading datetime.now() gave at entry
    others,          \* the other Runs that entered: user, clock reading, id
    store            \* the shared graph store: committed elements, by Run

vars == <<pc, user_id, image_path, element_id, extracted_text, patterns,
          questions, results, item_results, completion, sessionOpen,
          stage_outcome, invoked, calls, exc, raisedBy, reports, escaped,
          verify_input, now_read, others, store>>

----------------------------------------------------------------------------
(* Bounds of the model *)

MaxPatterns == 2     \* longest pattern list discover_patterns returns
MaxNow == 3          \* clock readings 0..MaxNow at entry
MaxOthers == 1       \* other Runs sharing the output directory and the store

(* Program constants *)

TicksPerSecond == 2  \* strftime("%Y%m%d_%H%M%S") keeps whole seconds only

----------------------------------------------------------------------------
(* Values *)

None == "<None>"

Users == {"telegram_user", "u42"}

\* "scan.jpg" exists and is readable, "missing.jpg" does not exist
Images == {"scan.jpg", "missing.jpg"}

Readable(img) == img = "scan.jpg"

Texts == {"Patient has fever and cough."}

\* str(e) of the exceptions the collaborators raise; a bare Exception() has ""
Reasons == {"", "connection refused"}

Verdicts == {"supported", "refuted", "inconclusive"}

\* The four stages, in pipeline order
StageOrder == <<"extracting", "graphing", "discovering", "verifying">>

Stages == {StageOrder[i] : i \in 1..Len(StageOrder)}

\* Collaborator operations the entry point calls
Operations == {"mkdir", "MedicalDocumentPipeline", "process_document",
               "KGPatternDiscovery", "discover_patterns", "close",
               "HypothesisVerifier", "verify_questions_sync"}

\* A pattern is a dict; its 'question' may be missing, None, "" or a text
PatternValues ==
    { [path_length |-> 1] }
    \cup { [path_length |-> 1, question |-> q] : q \in {None, "", "Q1", "Q2"} }

\* Subgraph shapes a document can contribute to the graph store
Shapes == {"fever", "cough"}

\* the question a pattern over the shape is rendered into
QuestionOf(shape) == IF shape = "fever" THEN "Q1" ELSE "Q2"

\* what discovery can make of a shape: its question, or a failed rendering
Renderings(shape) ==
    { [path_length |-> 1] }
    \cup { [path_length |-> 1, question |-> q] :
               q \in {None, "", QuestionOf(shape)} }

\* the patterns a query of the graph store can return: the call is given no
\* run identifier, so every committed element counts, whichever Run wrote it
StorePatterns(st) == UNION { Renderings(e.shape) : e \in st }

\* chronos_dir / "chronos_output" / f"{element_id}_text.txt"
OutputTextFile(eid) == <<"chronos_output", eid, "_text.txt">>

BoundedSeq(S, n) == UNION { [1..k -> S] : k \in 0..n }

----------------------------------------------------------------------------
(* Pure helpers of the entry point *)

\* datetime.now().strftime("%Y%m%d_%H%M%S"): the clock cut to whole seconds
Strftime(now) == now \div TicksPerSecond

\* f"telegram_{user_id}_{timestamp}"
ElementId(u, timestamp) == <<"telegram", u, timestamp>>

\* dict.get(key): None when the key is missing
Get(p, key) == IF key \in DOMAIN p THEN p[key] ELSE None

\* Python truthiness of a question value
Truthy(v) == v # None /\ v # ""

HasQuestion(p) == Truthy(Get(p, "question"))

\* the comprehension without its `if`: every pattern's question, None included
ExtractQuestionsUnfiltered(ps) ==
    [i \in 1..Len(ps) |-> Get(ps[i], "question")]

\* [p['question'] for p in patterns if p.get('question')]
ExtractQuestions(ps) ==
    LET kept == SelectSeq(ps, HasQuestion)
    IN  [i \in 1..Len(kept) |-> kept[i].question]

\* return of the zero-question branch
NoHypothesesReport(text) ==
    [success |-> FALSE,
     error |-> "No hypotheses generated from the image",
     ocr_text |-> text]

\* the success report with the errored verifications filtered out of it
SuccessReportDropErrors(qs, rs, text, eid) ==
    [success |-> TRUE,
     hypotheses |-> qs,
     verification_results |-> SelectSeq(rs, LAMBDA r : "error" \notin DOMAIN r),
     ocr_text |-> text,
     element_id |-> eid]

\* return of the success branch
SuccessReport(qs, rs, text, eid) ==
    [success |-> TRUE,
     hypotheses |-> qs,
     verification_results |-> rs,
     ocr_text |-> text,
     element_id |-> eid]

\* return of the except branch
FailureReport(e) ==
    [success |-> FALSE, error |-> e.msg]

----------------------------------------------------------------------------
Init ==
    /\ pc = "start"
    /\ user_id = None
    /\ image_path = None
    /\ element_id = None
    /\ extracted_text = None
    /\ patterns = <<>>
    /\ questions = <<>>
    /\ results = <<>>
    /\ item_results = <<>>
    /\ completion = <<>>
    /\ sessionOpen = FALSE
    /\ stage_outcome = [s \in Stages |-> "none"]
    /\ invoked = <<>>
    /\ calls = [op \in Operations |-> 0]
    /\ exc = None
    /\ raisedBy = None
    /\ reports = {}
    /\ escaped = {}
    /\ verify_input = <<>>
    /\ now_read = -1
    /\ others = {}
    /\ store = {}

----------------------------------------------------------------------------
(* Bookkeeping shared by the steps *)

Called(op) == [calls EXCEPT ![op] = @ + 1]

\* document processing wrapped in its own log-and-continue handler
RaiseAndContinue(op, m) ==
    /\ pc' = IF op \in {"MedicalDocumentPipeline", "extract", "build_graph"}
                THEN "new_discovery"
                ELSE "except"
    /\ exc' = [msg |-> m]
    /\ raisedBy' = op

\* a collaborator call inside the try block raises Exception(m)
Raise(op, m) ==
    /\ pc' = "except"
    /\ exc' = [msg |-> m]
    /\ raisedBy' = op

\* one question's verification: a verdict, or an error kept inline
ItemOutcomes(q) ==
    { [question |-> q, verdict |-> v] : v \in Verdicts }
    \cup { [question |-> q, error |-> m] : m \in Reasons }

\* verify returns only once every question has its result
VerifyJoined == DOMAIN item_results = 1..Len(verify_input)

\* the result list gathered in the order the verifications finished
VerifyResultsAsCompleted ==
    [k \in 1..Len(completion) |-> item_results[completion[k]]]

\* the result list of verify: one entry per question, in question order
VerifyResults == [i \in 1..Len(verify_input) |-> item_results[i]]

----------------------------------------------------------------------------
(* Steps of process_telegram_image *)

\* entry: timestamp and element_id are computed once
Enter ==
    /\ pc = "start"
    /\ \E u \in Users, img \in Images, now \in 0..MaxNow :
          /\ now \notin {o.now : o \in others}
          /\ user_id' = u
          /\ image_path' = img
          /\ element_id' = ElementId(u, Strftime(now))
          /\ now_read' = now
    /\ pc' = "mkdir"
    /\ UNCHANGED <<verify_input, others, store>>
    /\ UNCHANGED <<extracted_text, patterns, questions, results, item_results,
                   completion, sessionOpen, stage_outcome, invoked, calls,
                   exc, raisedBy, reports, escaped>>

\* output_text_file.parent.mkdir(exist_ok=True), before the try block
Mkdir ==
    /\ pc = "mkdir"
    /\ calls' = Called("mkdir")
    /\ \/ /\ pc' = "new_pipeline"
          /\ UNCHANGED <<raisedBy, escaped>>
       \/ \E m \in Reasons :
             /\ pc' = "raised"
             /\ escaped' = {[msg |-> m]}
             /\ raisedBy' = "mkdir"
    /\ UNCHANGED <<verify_input, now_read, others, store>>
    /\ UNCHANGED <<user_id, image_path, element_id, extracted_text, patterns,
                   questions, results, item_results, completion, sessionOpen,
                   stage_outcome, invoked, exc, reports>>

\* pipeline = MedicalDocumentPipeline(...)
NewPipeline ==
    /\ pc = "new_pipeline"
    /\ calls' = Called("MedicalDocumentPipeline")
    /\ \/ /\ pc' = "process_document"
          /\ UNCHANGED <<exc, raisedBy>>
       \/ \E m \in Reasons : Raise("MedicalDocumentPipeline", m)
    /\ UNCHANGED <<verify_input, now_read, others, store>>
    /\ UNCHANGED <<user_id, image_path, element_id, extracted_text, patterns,
                   questions, results, item_results, completion, sessionOpen,
                   stage_outcome, invoked, reports, escaped>>

\* pipeline.process_document(input_file=image_path, ...) is entered
ProcessDocumentCall ==
    /\ pc = "process_document"
    /\ calls' = Called("process_document")
    /\ pc' = "extract"
    /\ UNCHANGED <<verify_input, now_read, others, store>>
    /\ UNCHANGED <<user_id, image_path, element_id, extracted_text, patterns,
                   questions, results, item_results, completion, sessionOpen,
                   stage_outcome, invoked, exc, raisedBy, reports, escaped>>

\* inside process_document: text extraction; an unreadable file always fails
Extract ==
    /\ pc = "extract"
    /\ invoked' = Append(invoked, "extracting")
    /\ \/ /\ Readable(image_path)
          /\ stage_outcome' = [stage_outcome EXCEPT !["extracting"] = "ok"]
          /\ pc' = "build_graph"
          /\ UNCHANGED <<exc, raisedBy>>
       \/ /\ \E m \in Reasons : Raise("extract", m)
          /\ stage_outcome' = [stage_outcome EXCEPT !["extracting"] = "raised"]
    /\ UNCHANGED <<verify_input, now_read, others, store>>
    /\ UNCHANGED <<user_id, image_path, element_id, extracted_text, patterns,
                   questions, results, item_results, completion, sessionOpen,
                   calls, reports, escaped>>

\* inside process_document: graph construction; on success the call returns
\* and extracted_text is bound
BuildGraph ==
    /\ pc = "build_graph"
    /\ invoked' = Append(invoked, "graphing")
    /\ \/ /\ stage_outcome' = [stage_outcome EXCEPT !["graphing"] = "ok"]
          /\ \E t \in Texts : extracted_text' = t
          /\ \E shs \in SUBSET Shapes :
                store' = store \cup {[by |-> "own", shape |-> sh] : sh \in shs}
          /\ pc' = "new_discovery"
          /\ UNCHANGED <<exc, raisedBy>>
       \/ /\ \E m \in Reasons : Raise("build_graph", m)
          /\ stage_outcome' = [stage_outcome EXCEPT !["graphing"] = "raised"]
          /\ UNCHANGED <<extracted_text, store>>
    /\ UNCHANGED <<verify_input, now_read, others>>
    /\ UNCHANGED <<user_id, image_path, element_id, patterns, questions,
                   results, item_results, completion, sessionOpen, calls,
                   reports, escaped>>

\* pattern_discovery = KGPatternDiscovery(...): opens the graph-store session,
\* which stays open until close() is called on it
NewPatternDiscovery ==
    /\ pc = "new_discovery"
    /\ calls' = Called("KGPatternDiscovery")
    /\ \/ /\ sessionOpen' = TRUE
          /\ pc' = "discover"
          /\ UNCHANGED <<exc, raisedBy>>
       \/ /\ \E m \in Reasons : Raise("KGPatternDiscovery", m)
          /\ UNCHANGED sessionOpen
    /\ UNCHANGED <<verify_input, now_read, others, store>>
    /\ UNCHANGED <<user_id, image_path, element_id, extracted_text, patterns,
                   questions, results, item_results, completion,
                   stage_outcome, invoked, reports, escaped>>

\* patterns = pattern_discovery.discover_patterns(max_length=3, ...)
DiscoverPatterns ==
    /\ pc = "discover"
    /\ calls' = Called("discover_patterns")
    /\ invoked' = Append(invoked, "discovering")
    /\ \/ /\ \E ps \in BoundedSeq(StorePatterns(store), MaxPatterns) :
                patterns' = ps
          /\ stage_outcome' = [stage_outcome EXCEPT !["discovering"] = "ok"]
          /\ pc' = "close"
          /\ UNCHANGED <<exc, raisedBy>>
       \/ /\ \E m \in Reasons : Raise("discover_patterns", m)
          /\ stage_outcome' = [stage_outcome EXCEPT !["discovering"] = "raised"]
          /\ UNCHANGED patterns
    /\ UNCHANGED <<verify_input, now_read, others, store>>
    /\ UNCHANGED <<user_id, image_path, element_id, extracted_text, questions,
                   results, item_results, completion, sessionOpen, reports,
                   escaped>>

\* pattern_discovery.close(): reached only when discover_patterns returned
ClosePatternDiscovery ==
    /\ pc = "close"
    /\ calls' = Called("close")
    /\ \/ /\ sessionOpen' = FALSE
          /\ pc' = "filter"
          /\ UNCHANGED <<exc, raisedBy>>
       \/ /\ \E m \in Reasons : Raise("close", m)
          /\ sessionOpen' \in BOOLEAN
    /\ UNCHANGED <<verify_input, now_read, others, store>>
    /\ UNCHANGED <<user_id, image_path, element_id, extracted_text, patterns,
                   questions, results, item_results, completion,
                   stage_outcome, invoked, reports, escaped>>

\* the zero-question check without its early return
FilterQuestionsNoReturn ==
    /\ pc = "filter"
    /\ questions' = ExtractQuestions(patterns)
    /\ pc' = "new_verifier"
    /\ UNCHANGED <<verify_input, now_read, others, store>>
    /\ UNCHANGED <<user_id, image_path, element_id, extracted_text, patterns,
                   results, item_results, completion, sessionOpen,
                   stage_outcome, invoked, calls, exc, raisedBy, escaped,
                   reports>>

\* questions = [...]; if not questions: return {...}
FilterQuestions ==
    /\ pc = "filter"
    /\ questions' = ExtractQuestions(patterns)
    /\ IF questions' = <<>>
          THEN /\ reports' = {NoHypothesesReport(extracted_text)}
               /\ pc' = "returned"
          ELSE /\ pc' = "new_verifier"
               /\ UNCHANGED reports
    /\ UNCHANGED <<verify_input, now_read, others, store>>
    /\ UNCHANGED <<user_id, image_path, element_id, extracted_text, patterns,
                   results, item_results, completion, sessionOpen,
                   stage_outcome, invoked, calls, exc, raisedBy, escaped>>

\* verifier = HypothesisVerifier(output_dir=...)
NewVerifier ==
    /\ pc = "new_verifier"
    /\ calls' = Called("HypothesisVerifier")
    /\ \/ /\ pc' = "verify"
          /\ UNCHANGED <<exc, raisedBy>>
       \/ \E m \in Reasons : Raise("HypothesisVerifier", m)
    /\ UNCHANGED <<verify_input, now_read, others, store>>
    /\ UNCHANGED <<user_id, image_path, element_id, extracted_text, patterns,
                   questions, results, item_results, completion, sessionOpen,
                   stage_outcome, invoked, reports, escaped>>

\* verifier.verify_questions_sync(questions) is entered
VerifyCall ==
    /\ pc = "verify"
    /\ calls' = Called("verify_questions_sync")
    /\ invoked' = Append(invoked, "verifying")
    /\ stage_outcome' = [stage_outcome EXCEPT !["verifying"] = "running"]
    /\ item_results' = <<>>
    /\ completion' = <<>>
    /\ verify_input' = questions
    /\ pc' = "verifying"
    /\ UNCHANGED <<now_read, others, store>>
    /\ UNCHANGED <<user_id, image_path, element_id, extracted_text, patterns,
                   questions, results, sessionOpen, exc, raisedBy, reports,
                   escaped>>

\* inside verify: question i finishes, in any order, with a verdict or an error
VerifyItem ==
    /\ pc = "verifying"
    /\ \E i \in (1..Len(verify_input)) \ DOMAIN item_results :
          /\ \E r \in ItemOutcomes(verify_input[i]) :
                item_results' = (i :> r) @@ item_results
          /\ completion' = Append(completion, i)
    /\ UNCHANGED <<verify_input, now_read, others, store>>
    /\ UNCHANGED <<pc, user_id, image_path, element_id, extracted_text,
                   patterns, questions, results, sessionOpen, stage_outcome,
                   invoked, calls, exc, raisedBy, reports, escaped>>

\* verify_questions_sync raises as a whole (not a per-question failure)
VerifyRaise ==
    /\ pc = "verifying"
    /\ \E m \in Reasons : Raise("verify_questions_sync", m)
    /\ stage_outcome' = [stage_outcome EXCEPT !["verifying"] = "raised"]
    /\ UNCHANGED <<verify_input, now_read, others, store>>
    /\ UNCHANGED <<user_id, image_path, element_id, extracted_text, patterns,
                   questions, results, item_results, completion, sessionOpen,
                   invoked, calls, reports, escaped>>

\* the verification started but not awaited: the report goes out at once
VerifyReturnNotAwaited ==
    /\ pc = "verifying"
    /\ results' = VerifyResultsAsCompleted
    /\ reports' = {SuccessReport(questions, results', extracted_text,
                                 element_id)}
    /\ pc' = "returned"
    /\ UNCHANGED <<verify_input, now_read, others, store>>
    /\ UNCHANGED <<user_id, image_path, element_id, extracted_text, patterns,
                   questions, item_results, completion, sessionOpen,
                   stage_outcome, invoked, calls, exc, raisedBy, escaped>>

\* results = verifier.verify_questions_sync(questions); return {...}
VerifyReturn ==
    /\ pc = "verifying"
    /\ VerifyJoined
    /\ results' = VerifyResults
    /\ stage_outcome' = [stage_outcome EXCEPT !["verifying"] = "ok"]
    /\ reports' = {SuccessReport(questions, results', extracted_text,
                                 element_id)}
    /\ pc' = "returned"
    /\ UNCHANGED <<verify_input, now_read, others, store>>
    /\ UNCHANGED <<user_id, image_path, element_id, extracted_text, patterns,
                   questions, item_results, completion, sessionOpen, invoked,
                   calls, exc, raisedBy, escaped>>

\* an except branch that runs the pipeline once more before giving up
HandleExceptionRetry ==
    /\ pc = "except"
    /\ IF calls["MedicalDocumentPipeline"] < 2
          THEN /\ pc' = "new_pipeline"
               /\ UNCHANGED reports
          ELSE /\ reports' = {FailureReport(exc)}
               /\ pc' = "returned"
    /\ UNCHANGED <<verify_input, now_read, others, store>>
    /\ UNCHANGED <<user_id, image_path, element_id, extracted_text, patterns,
                   questions, results, item_results, completion, sessionOpen,
                   stage_outcome, invoked, calls, exc, raisedBy, escaped>>

\* except Exception as e: return {"success": False, "error": str(e)}
HandleException ==
    /\ pc = "except"
    /\ reports' = {FailureReport(exc)}
    /\ pc' = "returned"
    /\ UNCHANGED <<verify_input, now_read, others, store>>
    /\ UNCHANGED <<user_id, image_path, element_id, extracted_text, patterns,
                   questions, results, item_results, completion, sessionOpen,
                   stage_outcome, invoked, calls, exc, raisedBy, escaped>>

----------------------------------------------------------------------------
(* The other Runs of process_telegram_image, seen through what they share  *)
(* with this one: the output directory and the graph store.                *)

\* another call enters, at another instant: same lines 34-35
OtherEnter ==
    /\ Cardinality(others) < MaxOthers
    /\ \E u \in Users, now \in 0..MaxNow :
          /\ now # now_read
          /\ now \notin {o.now : o \in others}
          /\ others' = others \cup
                {[user |-> u, now |-> now,
                  element_id |-> ElementId(u, Strftime(now))]}
    /\ UNCHANGED <<pc, user_id, image_path, element_id, extracted_text,
                   patterns, questions, results, item_results, completion,
                   sessionOpen, stage_outcome, invoked, calls, exc, raisedBy,
                   reports, escaped, verify_input, now_read, store>>

\* another Run's process_document commits its graph elements
OtherCommit ==
    /\ others # {}
    /\ \E sh \in Shapes : store' = store \cup {[by |-> "other", shape |-> sh]}
    /\ UNCHANGED <<pc, user_id, image_path, element_id, extracted_text,
                   patterns, questions, results, item_results, completion,
                   sessionOpen, stage_outcome, invoked, calls, exc, raisedBy,
                   reports, escaped, verify_input, now_read, others>>

Next ==
    \/ Enter
    \/ Mkdir
    \/ NewPipeline
    \/ ProcessDocumentCall
    \/ Extract
    \/ BuildGraph
    \/ NewPatternDiscovery
    \/ DiscoverPatterns
    \/ ClosePatternDiscovery
    \/ FilterQuestions
    \/ NewVerifier
    \/ VerifyCall
    \/ VerifyItem
    \/ VerifyRaise
    \/ VerifyReturn
    \/ HandleException

\* one Run with the output directory and the graph store to itself
Spec == Init /\ [][Next]_vars

\* the Run together with the other Runs that share both
NextShared ==
    \/ Next
    \/ OtherEnter
    \/ OtherCommit

SpecShared == Init /\ [][NextShared]_vars

----------------------------------------------------------------------------
TypeOK ==
    /\ pc \in {"start", "mkdir", "new_pipeline", "process_document", "extract",
               "build_graph", "new_discovery", "discover", "close", "filter",
               "new_verifier", "verify", "verifying", "except", "returned",
               "raised"}
    /\ sessionOpen \in BOOLEAN
    /\ Cardinality(reports) <= 1
    /\ Cardinality(escaped) <= 1
    /\ \A i \in 1..Len(patterns) : patterns[i] \in PatternValues
    /\ Cardinality(others) <= MaxOthers
    /\ now_read \in -1..MaxNow

----------------------------------------------------------------------------
(* Vocabulary of the properties *)

\* the status a caller reads off a report: its success flag
Status(r) == IF r.success THEN "completed" ELSE "failed"

IsPrefix(s, t) == Len(s) <= Len(t) /\ \A i \in 1..Len(s) : s[i] = t[i]

Returned == pc = "returned"

\* a stage raised in this Run
FailedStages == {s \in Stages : stage_outcome[s] = "raised"}

\* discovery returned, its session was closed, and no pattern had a question
ZeroQuestions ==
    /\ Returned
    /\ raisedBy = None
    /\ stage_outcome["discovering"] = "ok"
    /\ questions = <<>>

\* verify returned its list (it did not raise as a whole)
VerifyCompleted == Returned /\ stage_outcome["verifying"] = "ok"

ErroredItems == {i \in DOMAIN item_results : "error" \in DOMAIN item_results[i]}

----------------------------------------------------------------------------
(* C1: for every outcome of every collaborator, the mkdir before the try   *)
(* block included, the caller gets a report and no exception escapes.      *)
C1_NoExceptionEscapes ==
    /\ escaped = {}
    /\ pc # "raised"

(* C2: every report handed back has a terminal status (completed or        *)
(* failed) and is handed back only when the Run is over: no stage is still *)
(* running and the entry point has returned.                               *)
C2_ReportIsTerminal ==
    \A r \in reports :
        /\ Returned
        /\ r.success \in BOOLEAN
        /\ Status(r) \in {"completed", "failed"}
        /\ \A s \in Stages : stage_outcome[s] # "running"

C2_Witness ==
    /\ reports # {}
    /\ stage_outcome["discovering"] = "ok"
    /\ stage_outcome["verifying"] = "raised"

(* C3: the stages are invoked in pipeline order, each only after the one   *)
(* before it returned successfully; after a stage raised no later stage is *)
(* invoked (a graph construction failure: no discover_patterns, no verify).*)
C3_StagesInOrder ==
    /\ IsPrefix(invoked, StageOrder)
    /\ \A i \in 2..Len(invoked) : stage_outcome[invoked[i - 1]] = "ok"
    /\ \A s \in Stages :
          stage_outcome[s] # "none" <=> \E i \in 1..Len(invoked) : invoked[i] = s
    /\ \A s \in FailedStages : invoked[Len(invoked)] = s
    /\ Cardinality({s \in Stages : stage_outcome[s] = "running"}) <= 1
    /\ stage_outcome["graphing"] = "raised" =>
          /\ calls["discover_patterns"] = 0
          /\ calls["verify_questions_sync"] = 0

C3_Witness ==
    /\ Returned
    /\ stage_outcome["graphing"] = "raised"

(* C4: when pattern discovery yields zero questions the Run ends with      *)
(* status completed and a "no hypotheses" marker that tells it from a      *)
(* failed Run, and verify is never invoked.                                *)
C4_ZeroQuestionsCompleted ==
    ZeroQuestions =>
        /\ calls["verify_questions_sync"] = 0
        /\ \A r \in reports :
              /\ Status(r) = "completed"
              /\ r \notin {FailureReport([msg |-> m]) : m \in Reasons}

(* C5: when a stage fails fatally the report has status failed, names the  *)
(* stage that failed, gives a reason, and holds no stage result beyond the *)
(* failing stage.                                                          *)
C5_FailureNamesStage ==
    Returned =>
        \A s \in FailedStages : \A r \in reports :
            /\ Status(r) = "failed"
            /\ "stage" \in DOMAIN r
            /\ r.stage = s
            /\ "error" \in DOMAIN r
            /\ DOMAIN r \cap {"hypotheses", "verification_results"} = {}

(* C6: on every exit branch the report carries the run identifier, the     *)
(* final status, the extracted text length, the counts of patterns,        *)
(* questions and verifications, and either the results or the reason.      *)
C6_ReportAlwaysComplete ==
    \A r \in reports :
        /\ "element_id" \in DOMAIN r
        /\ "success" \in DOMAIN r
        /\ "ocr_text" \in DOMAIN r
        /\ {"patterns", "hypotheses", "verification_results"} \subseteq DOMAIN r
        /\ \/ "verification_results" \in DOMAIN r
           \/ "error" \in DOMAIN r

(* C7: the graph-store session opened for pattern discovery is released    *)
(* before the Run returns, whether discover_patterns returned or raised.   *)
C7_SessionReleased ==
    Returned => ~sessionOpen

(* C8: a failure while verifying one question neither aborts the batch nor *)
(* fails the Run: the Run completes with one result per question, the      *)
(* failed question's result carrying an error, the others their verdict.   *)
C8_ItemFailureIsInline ==
    /\ pc = "verifying" => raisedBy = None
    /\ VerifyCompleted =>
          \A r \in reports :
              /\ r.success
              /\ Len(r.verification_results) = Len(questions)
              /\ \A i \in 1..Len(questions) :
                    IF i \in ErroredItems
                       THEN "error" \in DOMAIN r.verification_results[i]
                       ELSE "verdict" \in DOMAIN r.verification_results[i]

C8_Witness ==
    /\ VerifyCompleted
    /\ ErroredItems # {}
    /\ ErroredItems # DOMAIN item_results

(* C9: a completed Run over N questions reports exactly N verification     *)
(* results, the i-th being the result of the i-th question, whatever the   *)
(* order in which the verifications finished or failed.                    *)
C9_ResultsInQuestionOrder ==
    \A r \in reports :
        r.success =>
            /\ Len(r.hypotheses) = Len(questions)
            /\ Len(r.verification_results) = Len(r.hypotheses)
            /\ \A i \in 1..Len(r.hypotheses) :
                  /\ r.verification_results[i].question = r.hypotheses[i]
                  /\ r.verification_results[i] = item_results[i]

C9_Witness ==
    /\ \E r \in reports : r.success
    /\ Len(completion) >= 2
    /\ completion[1] > completion[2]
    /\ questions[completion[1]] # questions[completion[2]]

(* C10: no stage is retried: document processing, discover_patterns and    *)
(* verify are each invoked at most once in a Run, also after a failure.    *)
C10_NoRetry ==
    /\ \A op \in {"process_document", "discover_patterns",
                  "verify_questions_sync"} : calls[op] <= 1
    /\ \A i, j \in 1..Len(invoked) : invoked[i] = invoked[j] => i = j

C10_Witness ==
    /\ Returned
    /\ raisedBy = "discover_patterns"
    /\ calls["process_document"] = 1
    /\ calls["discover_patterns"] = 1

\* indices of the discovered patterns whose question is present and non-empty
WithQuestion ==
    {i \in 1..Len(patterns) :
        /\ "question" \in DOMAIN patterns[i]
        /\ patterns[i].question \notin {None, ""}}

VerifyInvoked == calls["verify_questions_sync"] >= 1

(* C11: the list handed to verify is exactly the questions of the patterns *)
(* that have a present, non-empty question, in pattern order: none of them *)
(* is dropped and no pattern without a question gets through.              *)
C11_VerifyGetsTheQuestions ==
    VerifyInvoked =>
        /\ Len(verify_input) = Cardinality(WithQuestion)
        /\ \E f \in [1..Len(verify_input) -> WithQuestion] :
              /\ \A j, k \in 1..Len(verify_input) : j < k => f[j] < f[k]
              /\ \A k \in 1..Len(verify_input) :
                    verify_input[k] = patterns[f[k]].question

C11_Witness ==
    /\ VerifyInvoked
    /\ Len(patterns) >= 2
    /\ WithQuestion # {}
    /\ Cardinality(WithQuestion) < Len(patterns)

(* C12: a report with success = True is returned only after all four       *)
(* stages were invoked and returned without error; its hypotheses are the  *)
(* non-empty list passed to verify, its verification_results what verify   *)
(* returned for that list, its element_id the identifier made at entry.    *)
C12_SuccessMeansAllStagesRan ==
    \A r \in reports :
        r.success =>
            /\ invoked = StageOrder
            /\ \A s \in Stages : stage_outcome[s] = "ok"
            /\ raisedBy = None
            /\ verify_input # <<>>
            /\ r.hypotheses = verify_input
            /\ DOMAIN r.verification_results = DOMAIN item_results
            /\ \A i \in DOMAIN item_results :
                  r.verification_results[i] = item_results[i]
            /\ r.element_id = ElementId(user_id, Strftime(now_read))

C12_Witness ==
    \E r \in reports :
        /\ r.success
        /\ Len(r.hypotheses) >= 1
        /\ now_read > 0

\* the graph elements this Run's own document committed
OwnElements == {e \in store : e.by = "own"}

(* C13: the run identifier is made once at entry and any two distinct      *)
(* Runs, also two started for the same caller, get distinct identifiers    *)
(* and so write distinct output text files.                                *)
C13_DistinctRunIds ==
    /\ pc # "start" =>
          /\ element_id = ElementId(user_id, Strftime(now_read))
          /\ \A o \in others :
                /\ o.element_id # element_id
                /\ OutputTextFile(o.element_id) # OutputTextFile(element_id)
    /\ \A o1, o2 \in others :
          o1 # o2 => OutputTextFile(o1.element_id) # OutputTextFile(o2.element_id)

(* C14: with a graph store shared with other Runs, every question a Run    *)
(* verifies is rendered from a pattern over elements this Run committed,   *)
(* and a Run whose own document contributed no pattern ends with the       *)
(* zero-question outcome.                                                  *)
C14_OnlyOwnHypotheses ==
    /\ VerifyInvoked =>
          \A k \in 1..Len(verify_input) :
              \E e \in OwnElements : QuestionOf(e.shape) = verify_input[k]
    /\ (Returned /\ raisedBy = None /\ OwnElements = {}) => ZeroQuestions

====
